---------------------------- MODULE Spec2Model ----------------------------
(***************************************************************************)
(* PIA qBittorrent Port Helper (src/app.py).                               *)
(*                                                                         *)
(* Two threads of control: "main" (startup, then the health-check loop)    *)
(* and "watcher" (the watchdog observer thread that dispatches file events *)
(* one at a time to PortFileHandler).  Both call into QBittorrentAPI.      *)
(* Every access to shared state (the logged_in flag, the port file, the    *)
(* qBittorrent service) is a step of its own; code between two such        *)
(* accesses is local to the thread and belongs to the step before it.      *)
(***************************************************************************)
EXTENDS Integers, Sequences, FiniteSets, TLC

\* Capacity of the observer's event queue that the model explores.
MaxQueue == 1

\* The set_port call counter saturates here (MaxCalls means "MaxCalls or more").
MaxCalls == 2

\* Optional values: None, or Some(x).  A missing port file is None, an empty
\* one is Some(<<>>).
None == <<>>

Some(x) == <<x>>

Threads == {"main", "watcher"}

(***************************************************************************)
(* Text of the port file: a sequence of characters.                        *)
(***************************************************************************)
Whitespace == {" ", "\n", "\t", "\r"}

Digits == <<"0", "1", "2", "3", "4", "5", "6", "7", "8", "9">>

IsDigit(c) == \E i \in 1..10 : Digits[i] = c

DigitVal(c) == (CHOOSE i \in 1..10 : Digits[i] = c) - 1

\* str.strip(): drop leading and trailing whitespace.
strip(s) ==
    LET kept == {i \in 1..Len(s) : s[i] \notin Whitespace}
    IN  IF kept = {} THEN <<>>
        ELSE SubSeq(s, CHOOSE i \in kept : \A j \in kept : i <= j,
                       CHOOSE i \in kept : \A j \in kept : j <= i)

\* The digits-and-underscores body of a Python integer literal: starts and
\* ends with a digit, underscores only singly between digits.
IsDigitBody(s) ==
    /\ s # <<>>
    /\ IsDigit(s[1])
    /\ IsDigit(s[Len(s)])
    /\ \A i \in 1..Len(s) : IsDigit(s[i]) \/ s[i] = "_"
    /\ \A i \in 1..(Len(s) - 1) : ~(s[i] = "_" /\ s[i + 1] = "_")

\* The value of the first n characters of a digit body.
RECURSIVE DigitsValue(_, _)
DigitsValue(s, n) ==
    IF n = 0 THEN 0
    ELSE IF s[n] = "_" THEN DigitsValue(s, n - 1)
    ELSE 10 * DigitsValue(s, n - 1) + DigitVal(s[n])

\* A parse that takes whatever is no integer for port 0.
int_Lenient(text) ==
    LET s == strip(text)
    IN  IF IsDigitBody(s)
        THEN [ok |-> TRUE, val |-> DigitsValue(s, Len(s))]
        ELSE [ok |-> TRUE, val |-> 0]

\* int(text): [ok |-> TRUE, val |-> n], or ok = FALSE for a ValueError.
int(text) ==
    LET s == strip(text)
        signed == s # <<>> /\ Head(s) \in {"+", "-"}
        body == IF signed THEN Tail(s) ELSE s
    IN  IF IsDigitBody(body)
        THEN [ok |-> TRUE,
              val |-> IF signed /\ Head(s) = "-"
                      THEN 0 - DigitsValue(body, Len(body))
                      ELSE DigitsValue(body, Len(body))]
        ELSE [ok |-> FALSE, val |-> 0]

\* What the external writer puts in the file for port p: its base-10 digits.
RECURSIVE Decimal(_)
Decimal(p) ==
    IF p < 10 THEN <<Digits[p + 1]>>
    ELSE Append(Decimal(p \div 10), Digits[(p % 10) + 1])

\* The forwarded ports the external writer publishes: both ends of the range.
Ports == {1, 65535}

\* Port p as the writer leaves it in the file, with or without padding.
PortText(p, padded) ==
    IF padded THEN <<" ">> \o Decimal(p) \o <<"\n">> ELSE Decimal(p)

ValidContents == {PortText(p, p < 10) : p \in Ports}

EmptyContents == {<<>>, <<"\n">>}

InvalidContents == {<<"a", "b", "c">>}

FileContents == ValidContents \cup EmptyContents \cup InvalidContents

\* f.read().strip() for every text the file can hold, computed once.
read_strip == [text \in FileContents |-> strip(text)]

\* int(port_str) for every text the file can hold, computed once.
int_port_str == [text \in FileContents |-> int(read_strip[text])]

VARIABLES
    disable_auth,    \* QBittorrentAPI.disable_auth (QB_DISABLE_AUTH)
    logged_in,       \* QBittorrentAPI.logged_in
    last_port,       \* PortFileHandler.last_port: None or Some(port)
    file,            \* the port file: None (missing) or Some(text)
    svc_ok,          \* the service is reachable and answers requests
    cookie,          \* the session cookie of qb_api.session is valid at the service
    svc_prefs,       \* the service's preferences (listen_port, upnp, random_port)
    queue,           \* the observer's queue of file system events
    observer,        \* "new", "running", "stopping", "stopped"
    pc,              \* per thread: the place in the code
    stack,           \* per thread: the return places of the calls in progress
    port,            \* per thread: update_port's local port, set_port's argument
    resp,            \* per thread: the login response not yet looked at
    file_port,       \* main's local file_port (startup check)
    prefs,           \* main's local prefs (startup check)
    set_port_calls,  \* number of set_port calls so far, saturating at MaxCalls
    unread           \* the port file was written since the program last read it

vars == <<disable_auth, logged_in, last_port, file, svc_ok, cookie, svc_prefs,
          queue, observer, pc, stack, port, resp, file_port, prefs,
          set_port_calls, unread>>

(***************************************************************************)
(* The qBittorrent WebUI as the client sees it.  A request is answered in  *)
(* one step.  While svc_ok holds, requests are answered properly; while it *)
(* does not, a request ends in a connection error or timeout (exc), in an  *)
(* error status, or, for login, in a refusal.                              *)
(***************************************************************************)
Response(status, text, json) ==
    [exc |-> FALSE, status |-> status, text |-> text, json |-> json]

RequestException == [exc |-> TRUE, status |-> 0, text |-> "", json |-> None]

\* The service honours a request: authentication bypassed, or a live session.
Authorized == disable_auth \/ cookie

\* POST /api/v2/auth/login: the possible (response, cookie afterwards) pairs.
LoginOutcomes ==
    IF svc_ok
    THEN {[resp |-> Response(200, "Ok.", None), cookie |-> TRUE]}
    ELSE {[resp |-> r, cookie |-> cookie] :
            r \in {RequestException, Response(200, "Fails.", None),
                   Response(403, "", None)}}

\* GET /api/v2/app/preferences: the possible responses.
PreferencesOutcomes ==
    IF svc_ok
    THEN IF Authorized
         THEN {Response(200, "", Some(svc_prefs))}
         ELSE {Response(403, "Forbidden", None)}
    ELSE {RequestException, Response(500, "", None)}

\* The preferences after the service applied a patch.
ApplyPatch(old, patch) ==
    [old EXCEPT !.listen_port = patch.listen_port,
                !.upnp = patch.upnp,
                !.random_port = patch.random_port]

\* POST /api/v2/app/setPreferences: the possible (response, preferences
\* afterwards) pairs.  A request may time out at the client after the service
\* applied it.
SetPreferencesOutcomes(patch) ==
    IF svc_ok
    THEN IF Authorized
         THEN {[resp |-> Response(200, "", None),
                prefs |-> ApplyPatch(svc_prefs, patch)]}
         ELSE {[resp |-> Response(403, "Forbidden", None), prefs |-> svc_prefs]}
    ELSE {[resp |-> RequestException, prefs |-> svc_prefs],
          [resp |-> Response(500, "", None), prefs |-> svc_prefs]}
         \cup (IF Authorized
               THEN {[resp |-> RequestException,
                      prefs |-> ApplyPatch(svc_prefs, patch)]}
               ELSE {})

(***************************************************************************)
(* Calls and returns.  A return value is a record with a field ok (False   *)
(* and None have ok = FALSE); preferences carry listen_port as well.       *)
(***************************************************************************)
True == [ok |-> TRUE, listen_port |-> 0]

False == [ok |-> FALSE, listen_port |-> 0]

Preferences(json) == [ok |-> TRUE, listen_port |-> json.listen_port]

\* The frame of thread t that a return may change.
Frame(t) ==
    [pc |-> pc[t], stack |-> stack[t], port |-> port[t],
     last_port |-> last_port, file_port |-> file_port, prefs |-> prefs]

\* Calling procedure proc from frame f, to come back at the place ret.
CallFrom(f, proc, ret) ==
    [f EXCEPT !.pc = proc, !.stack = <<ret>> \o f.stack]

\* A startup that goes on to the port file whatever login() returned.
ret_main_205_Continue(f, v) == [f EXCEPT !.pc = "main_213"]

\* login() returned v to main (line 205): exit(1) on failure.
ret_main_205(f, v) ==
    [f EXCEPT !.pc = IF v.ok THEN "main_213" ELSE "exit_1"]

\* The startup check without the comparison: it always runs update_port.
ret_main_225_AlwaysUpdate(f, v) ==
    CallFrom([f EXCEPT !.prefs = Some(v)], "update_port", "ret_main_234")

\* The startup check giving up when the preferences cannot be read.
ret_main_225_SkipUnreadable(f, v) ==
    LET g == [f EXCEPT !.prefs = Some(v)]
    IN  IF v.ok /\ Some(v.listen_port) = f.file_port
        THEN [g EXCEPT !.last_port = f.file_port, !.pc = "main_248"]
        ELSE IF ~v.ok THEN [g EXCEPT !.pc = "main_248"]
        ELSE CallFrom(g, "update_port", "ret_main_234")

\* get_preferences() returned v to the startup check (lines 225-237).
ret_main_225(f, v) ==
    LET g == [f EXCEPT !.prefs = Some(v)]
    IN  IF v.ok /\ Some(v.listen_port) = f.file_port
        THEN [g EXCEPT !.last_port = f.file_port, !.pc = "main_248"]
        ELSE CallFrom(g, "update_port", "ret_main_234")

\* update_port() returned to the startup check (lines 234, 237).
ret_main_234(f, v) == [f EXCEPT !.pc = "main_248"]

\* get_preferences() returned v to the health check (lines 259-266).
ret_main_259(f, v) ==
    [f EXCEPT !.pc = IF v.ok THEN "main_256" ELSE "main_262"]

\* A health check that gives up when the login fails, as the startup does.
ret_main_263_ExitOnFail(f, v) ==
    [f EXCEPT !.pc = IF v.ok THEN "main_256" ELSE "exit_1"]

\* login() returned v to the health check (lines 263-264).
ret_main_263(f, v) == [f EXCEPT !.pc = "main_256"]

\* update_port() returned to the observer's dispatch.
ret_dispatch(f, v) == [f EXCEPT !.pc = "idle"]

RECURSIVE Return(_, _)

\* login() returned v to get_preferences (lines 59-61): None when it failed.
ret_get_preferences_60(f, v) ==
    IF v.ok THEN [f EXCEPT !.pc = "get_preferences_request"]
    ELSE Return(f, False)

\* login() returned v to set_port (lines 77-79): False when it failed.
ret_set_port_78(f, v) ==
    IF v.ok THEN [f EXCEPT !.pc = "set_port_request"]
    ELSE Return(f, False)

\* update_port recording the port whatever set_port returned.
ret_update_port_155_Always(f, v) ==
    Return([f EXCEPT !.last_port = f.port, !.port = None], False)

\* set_port(port) returned v to update_port (lines 155-158): the port is
\* recorded when the push succeeded; update_port returns.
ret_update_port_155(f, v) ==
    Return([f EXCEPT !.last_port = IF v.ok THEN f.port ELSE @,
                     !.port = None], False)

\* Returning v from the procedure on top of frame f's stack: the caller runs on
\* up to its next access to shared state.
Return(f, v) ==
    LET ret == Head(f.stack)
        g == [f EXCEPT !.stack = Tail(f.stack)]
    IN  CASE ret = "ret_main_205" -> ret_main_205(g, v)
          [] ret = "ret_main_225" -> ret_main_225(g, v)
          [] ret = "ret_main_234" -> ret_main_234(g, v)
          [] ret = "ret_main_259" -> ret_main_259(g, v)
          [] ret = "ret_main_263" -> ret_main_263(g, v)
          [] ret = "ret_dispatch" -> ret_dispatch(g, v)
          [] ret = "ret_get_preferences_60" -> ret_get_preferences_60(g, v)
          [] ret = "ret_set_port_78" -> ret_set_port_78(g, v)
          [] ret = "ret_update_port_155" -> ret_update_port_155(g, v)

\* Thread t goes on from frame f.
Resume(t, f) ==
    \E g \in {f} :
       /\ pc' = [pc EXCEPT ![t] = g.pc]
       /\ stack' = [stack EXCEPT ![t] = g.stack]
       /\ port' = [port EXCEPT ![t] = g.port]
       /\ last_port' = g.last_port
       /\ file_port' = g.file_port
       /\ prefs' = g.prefs

(***************************************************************************)
(* QBittorrentAPI                                                          *)
(***************************************************************************)
\* response.status_code == 200 and response.text == "Ok." (line 45)
LoginAccepted(r) == ~r.exc /\ r.status = 200 /\ r.text = "Ok."

\* login() without the bypass of lines 33-36: it always sends the request.
login_NoBypass(t) ==
    /\ pc[t] = "login"
    /\ \E o \in LoginOutcomes :
          /\ resp' = [resp EXCEPT ![t] = Some(o.resp)]
          /\ cookie' = o.cookie
    /\ pc' = [pc EXCEPT ![t] = "login_response"]
    /\ UNCHANGED <<logged_in, stack, port, last_port, file_port, prefs>>
    /\ UNCHANGED <<disable_auth, file, svc_ok, svc_prefs, queue, observer,
                   set_port_calls, unread>>

\* login(), lines 33-43: the bypass, or the login request is sent and answered.
login(t) ==
    /\ pc[t] = "login"
    /\ IF disable_auth
       THEN /\ logged_in' = TRUE
            /\ Resume(t, Return(Frame(t), True))
            /\ UNCHANGED <<resp, cookie>>
       ELSE /\ \E o \in LoginOutcomes :
                 /\ resp' = [resp EXCEPT ![t] = Some(o.resp)]
                 /\ cookie' = o.cookie
            /\ pc' = [pc EXCEPT ![t] = "login_response"]
            /\ UNCHANGED <<logged_in, stack, port, last_port, file_port, prefs>>
    /\ UNCHANGED <<disable_auth, file, svc_ok, svc_prefs, queue, observer,
                   set_port_calls, unread>>

\* A login() that clears the flag when the login is refused or fails.
login_response_ClearOnFail(t) ==
    /\ pc[t] = "login_response"
    /\ IF LoginAccepted(resp[t][1])
       THEN /\ logged_in' = TRUE
            /\ Resume(t, Return(Frame(t), True))
       ELSE /\ logged_in' = FALSE
            /\ Resume(t, Return(Frame(t), False))
    /\ resp' = [resp EXCEPT ![t] = None]
    /\ UNCHANGED <<disable_auth, file, svc_ok, cookie, svc_prefs, queue,
                   observer, set_port_calls, unread>>

\* login(), lines 45-55: the answer decides the flag and the result.
login_response(t) ==
    /\ pc[t] = "login_response"
    /\ IF LoginAccepted(resp[t][1])
       THEN /\ logged_in' = TRUE
            /\ Resume(t, Return(Frame(t), True))
       ELSE /\ logged_in' = logged_in
            /\ Resume(t, Return(Frame(t), False))
    /\ resp' = [resp EXCEPT ![t] = None]
    /\ UNCHANGED <<disable_auth, file, svc_ok, cookie, svc_prefs, queue,
                   observer, set_port_calls, unread>>

\* get_preferences(), lines 59-61: log in first when not logged in.
get_preferences(t) ==
    /\ pc[t] = "get_preferences"
    /\ IF ~logged_in
       THEN Resume(t, CallFrom(Frame(t), "login", "ret_get_preferences_60"))
       ELSE Resume(t, [Frame(t) EXCEPT !.pc = "get_preferences_request"])
    /\ UNCHANGED <<disable_auth, logged_in, file, svc_ok, cookie, svc_prefs,
                   queue, observer, resp, set_port_calls, unread>>

\* The result of get_preferences for response r (lines 65-73).
PreferencesResult(r) ==
    IF ~r.exc /\ r.status = 200 THEN Preferences(r.json[1]) ELSE False

\* get_preferences(), lines 63-73: the request is sent and answered.
get_preferences_request(t) ==
    /\ pc[t] = "get_preferences_request"
    /\ \E r \in PreferencesOutcomes :
          Resume(t, Return(Frame(t), PreferencesResult(r)))
    /\ UNCHANGED <<disable_auth, logged_in, file, svc_ok, cookie, svc_prefs,
                   queue, observer, resp, set_port_calls, unread>>

\* set_port(), lines 77-79: log in first when not logged in.
set_port(t) ==
    /\ pc[t] = "set_port"
    /\ IF ~logged_in
       THEN Resume(t, CallFrom(Frame(t), "login", "ret_set_port_78"))
       ELSE Resume(t, [Frame(t) EXCEPT !.pc = "set_port_request"])
    /\ UNCHANGED <<disable_auth, logged_in, file, svc_ok, cookie, svc_prefs,
                   queue, observer, resp, set_port_calls, unread>>

\* A patch that leaves UPnP alone.
preferences_KeepUpnp(p) ==
    [listen_port |-> p, upnp |-> svc_prefs.upnp, random_port |-> FALSE]

\* The patch set_port sends (lines 81-85).
preferences(p) == [listen_port |-> p, upnp |-> FALSE, random_port |-> FALSE]

\* A set_port that takes any answer for success, whatever its status.
SetPortResult_AnyStatus(r) == IF ~r.exc THEN True ELSE False

\* The result of set_port for response r (lines 94-103).
SetPortResult(r) == IF ~r.exc /\ r.status = 200 THEN True ELSE False

\* set_port(), lines 81-103: the request is sent and answered.
set_port_request(t) ==
    /\ pc[t] = "set_port_request"
    /\ \E o \in SetPreferencesOutcomes(preferences(port[t][1])) :
          /\ svc_prefs' = o.prefs
          /\ Resume(t, Return(Frame(t), SetPortResult(o.resp)))
    /\ UNCHANGED <<disable_auth, logged_in, file, svc_ok, cookie, queue,
                   observer, resp, set_port_calls, unread>>

(***************************************************************************)
(* PortFileHandler                                                         *)
(***************************************************************************)
PORT_FILE == "/app/port.dat"

\* The events the observer of the parent directory delivers.
FileEvent == [src_path |-> PORT_FILE, is_directory |-> FALSE]

OtherEvent == [src_path |-> "/app/other", is_directory |-> FALSE]

\* on_modified / on_created, lines 116 and 121: the event is for the port file.
on_modified(event) == event.src_path = PORT_FILE /\ ~event.is_directory

Bump(n) == IF n < MaxCalls THEN n + 1 ELSE MaxCalls

\* update_port(), lines 128-130: nothing to do when the file does not exist.
update_port(t) ==
    /\ pc[t] = "update_port"
    /\ IF file = None
       THEN Resume(t, Return(Frame(t), False))
       ELSE Resume(t, [Frame(t) EXCEPT !.pc = "update_port_read"])
    /\ UNCHANGED <<disable_auth, logged_in, file, svc_ok, cookie, svc_prefs,
                   queue, observer, resp, set_port_calls, unread>>

\* update_port without the comparison with last_port.
Decide_NoDedup(text, last) ==
    LET port_str == read_strip[text]
        parsed == int_port_str[text]
    IN  IF port_str = <<>> THEN [do |-> "return", port |-> None]
        ELSE IF ~parsed.ok THEN [do |-> "return", port |-> None]
        ELSE [do |-> "set_port", port |-> Some(parsed.val)]

\* update_port taking an empty file for "no port": it pushes port 0.
Decide_ClearOnEmpty(text, last) ==
    LET port_str == read_strip[text]
        parsed == int_port_str[text]
    IN  IF port_str = <<>>
        THEN IF last = None THEN [do |-> "return", port |-> None]
             ELSE [do |-> "set_port", port |-> Some(0)]
        ELSE IF ~parsed.ok THEN [do |-> "return", port |-> None]
        ELSE IF Some(parsed.val) = last THEN [do |-> "return", port |-> None]
        ELSE [do |-> "set_port", port |-> Some(parsed.val)]

\* What update_port does with the text it read (lines 133-155): "return", or
\* "set_port" with the parsed port.
Decide(text, last) ==
    LET port_str == read_strip[text]
        parsed == int_port_str[text]
    IN  IF port_str = <<>> THEN [do |-> "return", port |-> None]
        ELSE IF ~parsed.ok THEN [do |-> "return", port |-> None]
        ELSE IF Some(parsed.val) = last THEN [do |-> "return", port |-> None]
        ELSE [do |-> "set_port", port |-> Some(parsed.val)]

\* update_port(), lines 132-155: read the file, parse, compare with last_port,
\* and call set_port for a new port.  A file deleted since the check raises
\* in open(), which line 160 catches.
update_port_read(t) ==
    LET d == IF file = None THEN [do |-> "return", port |-> None]
             ELSE Decide(file[1], last_port)
    IN  /\ pc[t] = "update_port_read"
        /\ Resume(t, IF d.do = "return"
                     THEN Return(Frame(t), False)
                     ELSE CallFrom([Frame(t) EXCEPT !.port = d.port],
                                   "set_port", "ret_update_port_155"))
        /\ set_port_calls' = IF d.do = "return" THEN set_port_calls
                              ELSE Bump(set_port_calls)
        /\ unread' = FALSE
        /\ UNCHANGED <<disable_auth, logged_in, file, svc_ok, cookie,
                       svc_prefs, queue, observer, resp>>

\* The observer thread takes the next event and hands it to the handler.
dispatch ==
    /\ pc["watcher"] = "idle"
    /\ observer = "running"
    /\ queue # <<>>
    /\ queue' = Tail(queue)
    /\ IF on_modified(Head(queue))
       THEN Resume("watcher",
                   CallFrom(Frame("watcher"), "update_port", "ret_dispatch"))
       ELSE UNCHANGED <<pc, stack, port, last_port, file_port, prefs>>
    /\ UNCHANGED <<disable_auth, logged_in, file, svc_ok, cookie, svc_prefs,
                   observer, resp, set_port_calls, unread>>

(***************************************************************************)
(* main                                                                    *)
(***************************************************************************)
\* A startup that starts the observer before the initial check.
main_exists_ObserverFirst ==
    /\ pc["main"] = "main_213"
    /\ pc' = [pc EXCEPT !["main"] = IF file = None THEN "main_248" ELSE "main_218"]
    /\ observer' = "running"
    /\ UNCHANGED <<disable_auth, logged_in, last_port, file, svc_ok, cookie,
                   svc_prefs, queue, stack, port, resp, file_port,
                   prefs, set_port_calls, unread>>

\* Line 213: os.path.exists(PORT_FILE).
main_exists ==
    /\ pc["main"] = "main_213"
    /\ pc' = [pc EXCEPT !["main"] = IF file = None THEN "main_248" ELSE "main_218"]
    /\ UNCHANGED <<disable_auth, logged_in, last_port, file, svc_ok, cookie,
                   svc_prefs, queue, observer, stack, port, resp, file_port,
                   prefs, set_port_calls, unread>>

\* Lines 217-225 and 238-242: read and parse the file; with a port in hand,
\* ask the service for its preferences.
main_read ==
    /\ pc["main"] = "main_218"
    /\ IF file = None \/ read_strip[file[1]] = <<>> \/ ~int_port_str[file[1]].ok
       THEN Resume("main", [Frame("main") EXCEPT !.pc = "main_248"])
       ELSE Resume("main",
                   CallFrom([Frame("main") EXCEPT
                                !.file_port = Some(int_port_str[file[1]].val)],
                            "get_preferences", "ret_main_225"))
    /\ unread' = FALSE
    /\ UNCHANGED <<disable_auth, logged_in, file, svc_ok, cookie, svc_prefs,
                   queue, observer, resp, set_port_calls>>

\* Lines 248-252: the observer is started; the loop is entered.
observer_start ==
    /\ pc["main"] = "main_248"
    /\ observer' = "running"
    /\ pc' = [pc EXCEPT !["main"] = "main_256"]
    /\ file_port' = None
    /\ prefs' = None
    /\ UNCHANGED <<disable_auth, logged_in, last_port, file, svc_ok, cookie,
                   svc_prefs, queue, stack, port, resp, set_port_calls, unread>>

\* Lines 256-259: after the sleep, the health check asks for the preferences.
health_check ==
    /\ pc["main"] = "main_256"
    /\ Resume("main", CallFrom(Frame("main"), "get_preferences", "ret_main_259"))
    /\ UNCHANGED <<disable_auth, logged_in, file, svc_ok, cookie, svc_prefs,
                   queue, observer, resp, set_port_calls, unread>>

\* A health check that logs in again without resetting the flag.
reconnect_NoReset ==
    /\ pc["main"] = "main_262"
    /\ logged_in' = logged_in
    /\ Resume("main", CallFrom(Frame("main"), "login", "ret_main_263"))
    /\ UNCHANGED <<disable_auth, file, svc_ok, cookie, svc_prefs, queue,
                   observer, resp, set_port_calls, unread>>

\* Lines 262-263: the flag is reset and login() is called.
reconnect ==
    /\ pc["main"] = "main_262"
    /\ logged_in' = FALSE
    /\ Resume("main", CallFrom(Frame("main"), "login", "ret_main_263"))
    /\ UNCHANGED <<disable_auth, file, svc_ok, cookie, svc_prefs, queue,
                   observer, resp, set_port_calls, unread>>

\* The places of main inside the try block of lines 254-266, own or called.
InLoop == observer = "running" /\ pc["main"] # "main_271"

\* Line 268: KeyboardInterrupt reaches main anywhere in the loop; whatever main
\* was calling is abandoned.
interrupt ==
    /\ InLoop
    /\ pc' = [pc EXCEPT !["main"] = "main_271"]
    /\ stack' = [stack EXCEPT !["main"] = <<>>]
    /\ resp' = [resp EXCEPT !["main"] = None]
    /\ UNCHANGED <<disable_auth, logged_in, last_port, file, svc_ok, cookie,
                   svc_prefs, queue, observer, port, file_port, prefs,
                   set_port_calls, unread>>

\* Line 271: observer.stop(); no further event is dispatched.
observer_stop ==
    /\ pc["main"] = "main_271"
    /\ observer' = "stopping"
    /\ queue' = <<>>
    /\ pc' = [pc EXCEPT !["main"] = "main_272"]
    /\ UNCHANGED <<disable_auth, logged_in, last_port, file, svc_ok, cookie,
                   svc_prefs, stack, port, resp, file_port, prefs,
                   set_port_calls, unread>>

\* A shutdown that does not wait for the observer thread.
observer_join_NoWait ==
    /\ pc["main"] = "main_272"
    /\ observer' = "stopped"
    /\ pc' = [pc EXCEPT !["main"] = "exit_0"]
    /\ UNCHANGED <<disable_auth, logged_in, last_port, file, svc_ok, cookie,
                   svc_prefs, queue, stack, port, resp, file_port, prefs,
                   set_port_calls, unread>>

\* Lines 272-273: observer.join() returns once the observer thread has ended.
observer_join ==
    /\ pc["main"] = "main_272"
    /\ pc["watcher"] = "idle"
    /\ observer' = "stopped"
    /\ pc' = [pc EXCEPT !["main"] = "exit_0"]
    /\ UNCHANGED <<disable_auth, logged_in, last_port, file, svc_ok, cookie,
                   svc_prefs, queue, stack, port, resp, file_port, prefs,
                   set_port_calls, unread>>

(***************************************************************************)
(* The environment: the writer of the port file and the service.           *)
(***************************************************************************)
\* The queue after the file system reported event e to the observer.
Notify(e) == IF observer = "running" THEN Append(queue, e) ELSE queue

HasRoom == observer = "running" => Len(queue) < MaxQueue

\* The port file is created or rewritten with one of the texts.
Write(texts) ==
    /\ HasRoom
    /\ \E text \in texts : file' = Some(text)
    /\ queue' = Notify(FileEvent)
    /\ unread' = TRUE
    /\ UNCHANGED <<disable_auth, logged_in, last_port, svc_ok, cookie,
                   svc_prefs, observer, pc, stack, port, resp, file_port,
                   prefs, set_port_calls>>

\* The writer leaves any content, also while it is rewriting the file.
write_file == Write(FileContents)

\* The writer publishes a port.
write_port == Write(ValidContents)

\* The port file is deleted.
delete_file ==
    /\ file # None
    /\ file' = None
    /\ UNCHANGED <<disable_auth, logged_in, last_port, svc_ok, cookie,
                   svc_prefs, queue, observer, pc, stack, port, resp,
                   file_port, prefs, set_port_calls, unread>>

\* Something else changes in the watched directory.
other_file ==
    /\ observer = "running"
    /\ Len(queue) < MaxQueue
    /\ queue' = Notify(OtherEvent)
    /\ UNCHANGED <<disable_auth, logged_in, last_port, file, svc_ok, cookie,
                   svc_prefs, observer, pc, stack, port, resp, file_port,
                   prefs, set_port_calls, unread>>

\* The service becomes unreachable or starts failing, or recovers.
service_change ==
    /\ svc_ok' = ~svc_ok
    /\ UNCHANGED <<disable_auth, logged_in, last_port, file, cookie,
                   svc_prefs, queue, observer, pc, stack, port, resp,
                   file_port, prefs, set_port_calls, unread>>

\* The service drops the session (timeout, restart).
session_expire ==
    /\ cookie
    /\ cookie' = FALSE
    /\ UNCHANGED <<disable_auth, logged_in, last_port, file, svc_ok,
                   svc_prefs, queue, observer, pc, stack, port, resp,
                   file_port, prefs, set_port_calls, unread>>

(***************************************************************************)
(* The system                                                              *)
(***************************************************************************)
\* qBittorrent's defaults apart from the port.
InitialPreferences(p) == [listen_port |-> p, upnp |-> TRUE, random_port |-> FALSE]

\* Lines 202-210: the objects are constructed; main is about to call login().
Init ==
    /\ disable_auth \in BOOLEAN
    /\ logged_in = FALSE
    /\ last_port = None
    /\ file \in {None} \cup {Some(text) : text \in FileContents}
    /\ svc_ok \in BOOLEAN
    /\ cookie = FALSE
    /\ svc_prefs \in {InitialPreferences(p) : p \in Ports}
    /\ queue = <<>>
    /\ observer = "new"
    /\ pc = [t \in Threads |-> IF t = "main" THEN "login" ELSE "idle"]
    /\ stack = [t \in Threads |-> IF t = "main" THEN <<"ret_main_205">> ELSE <<>>]
    /\ port = [t \in Threads |-> None]
    /\ resp = [t \in Threads |-> None]
    /\ file_port = None
    /\ prefs = None
    /\ set_port_calls = 0
    /\ unread = FALSE

Step(t) ==
    \/ login(t)
    \/ login_response(t)
    \/ get_preferences(t)
    \/ get_preferences_request(t)
    \/ set_port(t)
    \/ set_port_request(t)
    \/ update_port(t)
    \/ update_port_read(t)

Main ==
    \/ main_exists
    \/ main_read
    \/ observer_start
    \/ health_check
    \/ reconnect
    \/ observer_stop
    \/ observer_join

Environment ==
    \/ write_file
    \/ delete_file
    \/ other_file
    \/ service_change
    \/ session_expire
    \/ interrupt

Next ==
    \/ \E t \in Threads : Step(t)
    \/ Main
    \/ dispatch
    \/ Environment

Spec == Init /\ [][Next]_vars

(***************************************************************************)
(* Liveness: both threads keep running (the operating system schedules     *)
(* them, the sleep of line 256 ends, every request has a timeout), the     *)
(* writer publishes ports, the service comes and goes.                     *)
(***************************************************************************)
MainThread == Step("main") \/ Main

WatcherThread == Step("watcher") \/ dispatch

LiveEnvironment ==
    \/ write_port
    \/ service_change
    \/ session_expire
    \/ interrupt

LiveInit == Init /\ file \in {Some(text) : text \in ValidContents}

LiveNext == MainThread \/ WatcherThread \/ LiveEnvironment

LiveSpec ==
    /\ LiveInit
    /\ [][LiveNext]_vars
    /\ WF_vars(MainThread)
    /\ WF_vars(WatcherThread)

(***************************************************************************)
(* Vocabulary of the properties                                            *)
(***************************************************************************)
\* The port file holds port p, as the writer formats it.
Holds(p) == file # None /\ \E padded \in BOOLEAN : file[1] = PortText(p, padded)

\* The port file holds no port at all: it is empty or blank.
HoldsNothing == file # None /\ file[1] \in EmptyContents

\* The port file holds something that is no integer.
HoldsGarbage == file # None /\ file[1] \in InvalidContents

\* Thread t is running update_port, at any depth.
InUpdatePort(t) ==
    \/ pc[t] \in {"update_port", "update_port_read"}
    \/ \E i \in 1..Len(stack[t]) : stack[t][i] = "ret_update_port_155"

\* Thread t is inside the set_port call that update_port made.
InSetPort(t) == \E i \in 1..Len(stack[t]) : stack[t][i] = "ret_update_port_155"

\* This step is thread t reading the port file in update_port (lines 132-133).
ReadsFile(t) == pc[t] = "update_port_read" /\ pc'[t] # "update_port_read"

\* This step is update_port returning in thread t without a set_port call.
ReturnsQuietly(t) ==
    /\ ~InSetPort(t)'
    /\ ~InUpdatePort(t)'
    /\ set_port_calls' = set_port_calls
    /\ UNCHANGED <<last_port, svc_prefs, logged_in, cookie>>

\* This step is update_port calling set_port(p) in thread t.
CallsSetPort(t, p) ==
    /\ pc'[t] = "set_port"
    /\ InSetPort(t)'
    /\ port'[t] = Some(p)
    /\ set_port_calls' = Bump(set_port_calls)
    /\ UNCHANGED <<last_port, svc_prefs, logged_in, cookie>>

(***************************************************************************)
(* C1. Idempotence of reconciliation: once update_port has pushed port p   *)
(* and recorded it in last_port, a further reconciliation that reads the   *)
(* same p returns without a set_port call; the reconciliation that found   *)
(* p new made exactly one call, and nothing else ever calls set_port.      *)
(***************************************************************************)
C1_Step ==
    /\ \A t \in Threads : \A p \in Ports :
          ReadsFile(t) /\ Holds(p) =>
             IF last_port = Some(p) THEN ReturnsQuietly(t) ELSE CallsSetPort(t, p)
    /\ set_port_calls' # set_port_calls =>
          \E t \in Threads : \E p \in Ports :
             ReadsFile(t) /\ Holds(p) /\ last_port # Some(p)

C1_Idempotent == [][C1_Step]_vars

\* A port pushed once and recorded, and a second reconciliation of the same
\* port at its read of the file.
C1_Witness ==
    \E p \in Ports :
       /\ last_port = Some(p)
       /\ set_port_calls = 1
       /\ Holds(p)
       /\ svc_prefs.listen_port = p
       /\ pc["watcher"] = "update_port_read"

(***************************************************************************)
(* C2. Empty-file safety: a reconciliation (update_port, or the startup    *)
(* check) that reads a file whose trimmed content is empty makes no        *)
(* set_port call and leaves last_port and the service's preferences as     *)
(* they were.                                                              *)
(***************************************************************************)
\* This step is main's read of the port file in the startup check (218-219).
StartupRead == pc["main"] = "main_218" /\ pc'["main"] # "main_218"

\* This step ends the startup check without any call.
StartupQuiet ==
    /\ pc'["main"] = "main_248"
    /\ set_port_calls' = set_port_calls
    /\ UNCHANGED <<last_port, svc_prefs, logged_in, cookie>>

C2_Step ==
    /\ \A t \in Threads : ReadsFile(t) /\ HoldsNothing => ReturnsQuietly(t)
    /\ StartupRead /\ HoldsNothing => StartupQuiet

C2_EmptyFileSafe == [][C2_Step]_vars

\* A port is recorded and applied, and a reconciliation is at its read of a
\* file that has become empty.
C2_Witness ==
    \E p \in Ports :
       /\ last_port = Some(p)
       /\ svc_prefs.listen_port = p
       /\ HoldsNothing
       /\ pc["watcher"] = "update_port_read"

(***************************************************************************)
(* C3. Invalid-content safety: a reconciliation that reads non-integer     *)
(* content, or finds no file, makes no set_port call and leaves last_port, *)
(* the logged_in flag and the service as they were.                        *)
(***************************************************************************)
\* This step is update_port checking that the file exists (line 128).
ChecksFile(t) == pc[t] = "update_port" /\ pc'[t] # "update_port"

C3_Step ==
    /\ \A t \in Threads :
          /\ ReadsFile(t) /\ (HoldsGarbage \/ file = None) => ReturnsQuietly(t)
          /\ ChecksFile(t) /\ file = None => ReturnsQuietly(t)
    /\ StartupRead /\ (HoldsGarbage \/ file = None) => StartupQuiet
    /\ pc["main"] = "main_213" /\ pc'["main"] # "main_213" /\ file = None
          => StartupQuiet

SetPortReturns(t) == InSetPort(t) /\ ~InSetPort(t)'

\* ... and it returns success: the request was sent and answered with 200.
SetPortSucceeds(t) ==
    SetPortReturns(t) /\ pc[t] = "set_port_request" /\ svc_ok /\ Authorized

C4_Step ==
    \A t \in Threads :
       /\ InSetPort(t) => port[t] # None /\ port[t] # last_port
       /\ SetPortReturns(t) /\ ~SetPortSucceeds(t) =>
             last_port' = last_port /\ last_port' # port[t]
       /\ \A p \in Ports :
             ReadsFile(t) /\ Holds(p) /\ last_port # Some(p) => CallsSetPort(t, p)

C4_FailedPushRetried == [][C4_Step]_vars

\* A second set_port(p) call is under way and nothing has been recorded or
\* applied yet: the push before it failed.
C4_Witness ==
    \E p \in Ports :
       /\ set_port_calls = 2
       /\ last_port = None
       /\ svc_prefs.upnp
       /\ Holds(p)
       /\ pc["watcher"] = "set_port"
       /\ port["watcher"] = Some(p)

(***************************************************************************)
(* C6. Round trip of the port value: a reconciliation that reads port p    *)
(* of 1..65535, with or without whitespace around it, and p is not         *)
(* last_port, calls set_port(p); the request carries listen_port = p,      *)
(* upnp = false and random_port = false; when the call succeeds, last_port *)
(* is p.                                                                   *)
(***************************************************************************)
C6_Step ==
    \A t \in Threads :
       /\ \A p \in Ports :
             ReadsFile(t) /\ Holds(p) /\ last_port # Some(p) =>
                p \in 1..65535 /\ CallsSetPort(t, p)
       /\ InSetPort(t) /\ InSetPort(t)' => port'[t] = port[t]
       /\ pc[t] = "set_port_request" /\ pc'[t] # "set_port_request" =>
             LET sent == [listen_port |-> port[t][1], upnp |-> FALSE,
                          random_port |-> FALSE]
             IN  /\ svc_prefs' \in {svc_prefs, sent}
                 /\ svc_ok /\ Authorized => svc_prefs' = sent
       /\ SetPortSucceeds(t) => last_port' = port[t]

C6_RoundTrip == [][C6_Step]_vars

\* The largest port was written, pushed once and recorded.
C6_Witness ==
    /\ Holds(65535)
    /\ set_port_calls = 1
    /\ last_port = Some(65535)
    /\ svc_prefs = [listen_port |-> 65535, upnp |-> FALSE, random_port |-> FALSE]

(***************************************************************************)
(* C7. Startup reconciliation skip: when the startup check read port p     *)
(* from the file and get_preferences reported listen_port = p, the startup *)
(* ends with no set_port call made and last_port = p, the observer not yet *)
(* started.                                                                *)
(***************************************************************************)
\* The startup check is over; its locals are still in place.
StartupDone == pc["main"] = "main_248"

\* The startup check read port p and the service reported port q.
StartupSaw(p, q) ==
    /\ file_port = Some(p)
    /\ prefs # None
    /\ prefs[1].ok
    /\ prefs[1].listen_port = q

C7_StartupSkip ==
    \A p \in Ports :
       StartupDone /\ StartupSaw(p, p) =>
          set_port_calls = 0 /\ last_port = Some(p) /\ observer = "new"

C7_Witness ==
    \E p \in Ports :
       /\ StartupDone
       /\ StartupSaw(p, p)
       /\ last_port = Some(p)
       /\ set_port_calls = 0
       /\ svc_prefs.listen_port = p

(***************************************************************************)
(* C8. Startup reconciliation push, as claimed: when the startup check     *)
(* read port p and the service reported another port, or no preferences,   *)
(* exactly one set_port call was made by the end of the startup, and it    *)
(* carried p (so nothing but p can have been recorded), whatever the       *)
(* writer did to the file in between.                                      *)
(***************************************************************************)
\* The startup check read port p and did not see p reported by the service.
StartupMismatch(p) ==
    /\ file_port = Some(p)
    /\ prefs # None
    /\ ~(prefs[1].ok /\ prefs[1].listen_port = p)

C8_Original ==
    \A p \in Ports :
       StartupDone /\ StartupMismatch(p) =>
          set_port_calls = 1 /\ last_port \in {None, Some(p)}

(***************************************************************************)
(* C8, amended.  On a mismatch, or with no preferences, the startup check  *)
(* runs update_port, which reads the file again: it makes exactly one      *)
(* set_port call, carrying the port it reads then (p, unless the writer    *)
(* replaced it), and no call when the file is by then missing, empty or    *)
(* no integer.  Never more than one call is made during the startup.       *)
(***************************************************************************)
\* This step is get_preferences returning to the startup check.
StartupPreferencesReturn ==
    /\ \E i \in 1..Len(stack["main"]) : stack["main"][i] = "ret_main_225"
    /\ \A i \in 1..Len(stack'["main"]) : stack'["main"][i] # "ret_main_225"

C8_Step ==
    /\ StartupPreferencesReturn =>
          /\ prefs' # None
          /\ set_port_calls' = 0
          /\ IF prefs'[1].ok /\ Some(prefs'[1].listen_port) = file_port
             THEN pc'["main"] = "main_248" /\ last_port' = file_port
             ELSE pc'["main"] = "update_port" /\ last_port' = None
    /\ ReadsFile("main") =>
          /\ set_port_calls = 0
          /\ \A q \in Ports : Holds(q) => CallsSetPort("main", q)
          /\ (\A q \in Ports : ~Holds(q)) => ReturnsQuietly("main")
    /\ \A p \in Ports :
          (StartupDone /\ StartupMismatch(p))' =>
             /\ set_port_calls' <= 1
             /\ last_port' # None => set_port_calls' = 1

C8_StartupPush == [][C8_Step]_vars

\* The startup check saw a mismatch, pushed the port once and recorded it.
C8_Witness ==
    \E p \in Ports :
       /\ StartupDone
       /\ StartupMismatch(p)
       /\ prefs[1].ok
       /\ set_port_calls = 1
       /\ last_port = Some(p)
       /\ svc_prefs.listen_port = p

(***************************************************************************)
(* C10. A failed login leaves the session unauthenticated: whenever        *)
(* login() returns failure, logged_in is false at that moment, for every   *)
(* interleaving of the health check and the file event callback.           *)
(***************************************************************************)
\* This step is thread t's login() returning failure (lines 49-55).
LoginFails(t) ==
    /\ pc[t] = "login_response"
    /\ pc'[t] \notin {"login_response", "main_271"}
    /\ resp[t][1].exc \/ resp[t][1].status # 200 \/ resp[t][1].text # "Ok."

C10_Step == \A t \in Threads : LoginFails(t) => ~logged_in'

C10_FailedLoginUnauthenticated == [][C10_Step]_vars

(***************************************************************************)
(* C5. Eventual synchronisation: if from some point on the port file holds *)
(* a fixed valid port p and the service is reachable and accepts requests, *)
(* and the process keeps running, then eventually the service's listening  *)
(* port is p and last_port = p, with no further file event assumed.        *)
(***************************************************************************)
\* The process has neither exited nor been interrupted.
Alive == pc["main"] \notin {"exit_1", "main_271", "main_272", "exit_0"}

Synchronised(p) == svc_prefs.listen_port = p /\ last_port = Some(p)

C5_EventualSync ==
    \A p \in Ports :
       []Alive /\ <>[](Holds(p) /\ svc_ok) /\ <>[][cookie => cookie']_vars
          => <>Synchronised(p)

(***************************************************************************)
(* C9. Health-probe self-heal: a health check whose get_preferences        *)
(* returns None resets logged_in and calls login() in the same tick; and   *)
(* if the service is reachable and accepts the credentials from some point *)
(* on, then in the running phase logged_in, whenever false, becomes true   *)
(* again (unless the process is stopped first).                            *)
(***************************************************************************)
\* This step is get_preferences returning to the health check.
ProbeReturns ==
    /\ \E i \in 1..Len(stack["main"]) : stack["main"][i] = "ret_main_259"
    /\ stack'["main"] = <<>>
    /\ pc'["main"] # "main_271"

\* ... with preferences: the request was sent and answered with 200.
ProbeSucceeds ==
    pc["main"] = "get_preferences_request" /\ svc_ok /\ Authorized

\* This step is main's, and no interrupt.
MainMoves == pc'["main"] # pc["main"] /\ pc'["main"] # "main_271"

C9_Step ==
    /\ ProbeReturns =>
          pc'["main"] = IF ProbeSucceeds THEN "main_256" ELSE "main_262"
    /\ pc["main"] = "main_262" /\ MainMoves =>
          /\ ~logged_in'
          /\ pc'["main"] = "login"
          /\ stack'["main"] = <<"ret_main_263">>
    /\ pc["main"] = "login" /\ stack["main"] = <<"ret_main_263">> /\ MainMoves =>
          IF disable_auth
          THEN logged_in' /\ pc'["main"] = "main_256"
          ELSE pc'["main"] = "login_response" /\ resp'["main"] # None

Running == observer = "running"

C9_SelfHeal ==
    /\ [][C9_Step]_vars
    /\ <>[]svc_ok => [](Running /\ ~logged_in => <>(logged_in \/ ~Running))

\* After a failed probe the flag is reset, and the login of the same tick has
\* been answered with "Ok.".
C9_Witness ==
    /\ Running
    /\ ~logged_in
    /\ pc["main"] = "login_response"
    /\ stack["main"] = <<"ret_main_263">>
    /\ LoginAccepted(resp["main"][1])

(***************************************************************************)
(* C11. No login race: in no reachable state does one thread find          *)
(* logged_in true at the check that opens get_preferences or set_port      *)
(* (lines 59, 77) while the other thread is in the middle of a login()     *)
(* call.                                                                   *)
(***************************************************************************)
\* Thread t is inside login(): about to send the request, or looking at the
\* answer.
MidLogin(t) == pc[t] \in {"login", "login_response"}

\* Thread t is at the check of logged_in and reads it as true.
ReadsLoggedIn(t) == pc[t] \in {"get_preferences", "set_port"} /\ logged_in

C11_NoLoginRace ==
    \A t, u \in Threads : t # u /\ MidLogin(u) => ~ReadsLoggedIn(t)

(***************************************************************************)
(* C12. Auth-disabled bypass: with disable_auth set, every login() call    *)
(* sets logged_in, returns success to its caller and sends no request (no  *)
(* response is ever awaited, the service never hands out a cookie);        *)
(* get_preferences and set_port go to their own request, directly or       *)
(* through that login().                                                   *)
(***************************************************************************)
\* This step is thread t's, and no interrupt.
Moves(t) == pc'[t] # pc[t] /\ pc'[t] # "main_271"

\* Where the caller at return place ret goes on when login() returned True.
AfterLogin(ret) ==
    CASE ret = "ret_main_205" -> "main_213"
      [] ret = "ret_main_263" -> "main_256"
      [] ret = "ret_get_preferences_60" -> "get_preferences_request"
      [] ret = "ret_set_port_78" -> "set_port_request"

C12_Step ==
    disable_auth =>
       \A t \in Threads :
          /\ pc[t] = "login" /\ Moves(t) =>
                /\ logged_in'
                /\ pc'[t] = AfterLogin(Head(stack[t]))
                /\ stack'[t] = Tail(stack[t])
          /\ pc[t] = "get_preferences" /\ Moves(t) =>
                IF logged_in
                THEN pc'[t] = "get_preferences_request"
                ELSE pc'[t] = "login"
                     /\ Head(stack'[t]) = "ret_get_preferences_60"
          /\ pc[t] = "set_port" /\ Moves(t) =>
                IF logged_in
                THEN pc'[t] = "set_port_request"
                ELSE pc'[t] = "login" /\ Head(stack'[t]) = "ret_set_port_78"
          /\ pc'[t] # "login_response"
          /\ resp'[t] = None
          /\ ~cookie'

C12_AuthDisabledBypass == [][C12_Step]_vars

\* With authentication disabled, set_port found logged_in reset by the health
\* check and is calling login().
C12_Witness ==
    /\ disable_auth
    /\ ~logged_in
    /\ pc["watcher"] = "login"
    /\ Head(stack["watcher"]) = "ret_set_port_78"

(***************************************************************************)
(* C13. The supervisor loop survives failures: in the running phase only   *)
(* an interrupt takes main out of the loop; whatever login() returns to    *)
(* the health check, main goes back to the sleep of line 256, from where   *)
(* the next tick probes again (and logs in again when logged_in is still   *)
(* false).                                                                 *)
(***************************************************************************)
\* login() called by the health check has failed: main is back at the sleep
\* with the flag still reset.
ReloginFailed == InLoop /\ pc["main"] = "main_256" /\ ~logged_in

\* Main is inside the probe of a health check, the login it makes included.
InProbe == \E i \in 1..Len(stack["main"]) : stack["main"][i] = "ret_main_259"

C13_Step ==
    /\ InLoop /\ ~InLoop' => interrupt
    /\ InLoop => pc'["main"] \notin {"exit_0", "exit_1", "main_272"}
    /\ InLoop => observer' = "running"
    /\ stack["main"] = <<"ret_main_263">> /\ stack'["main"] = <<>> =>
          pc'["main"] \in {"main_256", "main_271"}
    /\ pc["main"] = "main_256" /\ Moves("main") =>
          pc'["main"] = "get_preferences" /\ stack'["main"] = <<"ret_main_259">>

C13_LoopSurvives ==
    /\ [][C13_Step]_vars
    /\ ReloginFailed ~> (InProbe \/ ~InLoop)

\* The service is still down after a failed re-login, and the loop goes on.
C13_Witness == ReloginFailed /\ ~svc_ok /\ ~disable_auth

(***************************************************************************)
(* C14. Startup login failure is fatal: when the login() of line 205       *)
(* returns failure, main exits with status 1; it has not looked at the     *)
(* port file, the observer is never started, and no get_preferences or     *)
(* set_port request is ever sent: nothing moves after the exit and the     *)
(* service's preferences stay as they were.                                *)
(***************************************************************************)
\* This step is the startup login() returning failure to line 205.
StartupLoginFails ==
    /\ stack["main"] = <<"ret_main_205">>
    /\ stack'["main"] = <<>>
    /\ ~logged_in'

\* Main has left through sys.exit(1).
Exited1 == pc["main"] = "exit_1"

C14_Step ==
    /\ StartupLoginFails =>
          /\ Exited1'
          /\ pc["main"] = "login_response"
          /\ ~LoginAccepted(resp["main"][1])
    /\ Exited1' =>
          /\ observer' = "new"
          /\ file_port' = None /\ prefs' = None /\ last_port' = None
          /\ set_port_calls' = 0
          /\ pc'["watcher"] = "idle"
          /\ ~logged_in'
    /\ Exited1 => UNCHANGED <<pc, stack, svc_prefs, logged_in, observer, queue>>
    /\ stack["main"] = <<"ret_main_205">> =>
          pc'["main"] \notin {"get_preferences", "get_preferences_request",
                              "set_port", "set_port_request", "main_218"}

C14_StartupLoginFatal == [][C14_Step]_vars

\* The startup login was refused and main has exited; the port file is there.
C14_Witness == Exited1 /\ file # None /\ ~disable_auth

(***************************************************************************)
(* C15. Clean shutdown: after an interrupt in the running phase the        *)
(* observer is stopped, then joined, and only then main reports that it    *)
(* has stopped (exit status 0).  A reconciliation in flight at the         *)
(* interrupt runs to its end before that; from then on no reconciliation   *)
(* step runs, no set_port call is made and last_port does not change.      *)
(* Every interrupted run gets there.                                       *)
(***************************************************************************)
\* Main has been interrupted and is about to stop the observer (line 271).
Interrupted == pc["main"] = "main_271"

\* observer.join() has returned: the application has stopped.
Stopped == observer = "stopped"

C15_Step ==
    /\ observer' # observer =>
          \/ observer = "new" /\ observer' = "running"
          \/ observer = "running" /\ observer' = "stopping" /\ Interrupted
          \/ /\ observer = "stopping" /\ observer' = "stopped"
             /\ pc["main"] = "main_272"
             /\ ~InUpdatePort("watcher") /\ pc["watcher"] = "idle"
    /\ pc'["main"] = "exit_0" <=> Stopped'
    /\ InUpdatePort("watcher") /\ ~InUpdatePort("watcher")' =>
          pc'["watcher"] = "idle" /\ stack'["watcher"] = <<>>
    /\ observer # "running" /\ ~InUpdatePort("watcher") =>
          ~InUpdatePort("watcher")'
    /\ Stopped =>
          UNCHANGED <<last_port, set_port_calls, svc_prefs, logged_in, pc,
                      stack, port, queue, observer>>

C15_CleanShutdown ==
    /\ [][C15_Step]_vars
    /\ Interrupted ~> Stopped

\* observer.join() is waiting for the reconciliation that was in flight when
\* the interrupt arrived: its set_port request is still to be answered.
C15_Witness ==
    /\ pc["main"] = "main_272"
    /\ observer = "stopping"
    /\ pc["watcher"] = "set_port_request"

(***************************************************************************)
(* C16, as claimed.  last_port changes to a port p only in a step in       *)
(* which set_port(p) returns success.                                      *)
(***************************************************************************)
\* This step is set_port(p) returning success to update_port in some thread.
PushConfirmed(p) ==
    \E t \in Threads : SetPortSucceeds(t) /\ port[t] = Some(p)

C16_OriginalStep ==
    last_port' # last_port =>
       \E p \in Ports : last_port' = Some(p) /\ PushConfirmed(p)

C16_Original == [][C16_OriginalStep]_vars

(***************************************************************************)
(* C16, amended.  last_port is empty until the startup check; it changes   *)
(* to a port p only in a step in which set_port(p) returns success to      *)
(* update_port, or in which the startup check gets preferences whose       *)
(* listen_port equals the port p it read from the file (line 231, no push  *)
(* made); set_port itself never changes last_port, and last_port is never  *)
(* emptied again.                                                          *)
(***************************************************************************)
\* This step is the startup check seeing the service report the file's port p.
StartupMatch(p) ==
    /\ StartupPreferencesReturn
    /\ pc["main"] = "get_preferences_request"
    /\ file_port = Some(p)
    /\ svc_prefs.listen_port = p
    /\ svc_ok /\ Authorized

C16_Step ==
    /\ last_port' # last_port =>
          \E p \in Ports :
             /\ last_port' = Some(p)
             /\ PushConfirmed(p) \/ StartupMatch(p)
    /\ \A t \in Threads : InSetPort(t) /\ InSetPort(t)' => last_port' = last_port
    /\ stack'["main"] = <<"ret_main_205">> => last_port' = None

C16_LastPortConfirmed == [][C16_Step]_vars

\* The only push so far has been confirmed and recorded; the loop is running.
C16_Witness ==
    \E p \in Ports :
       /\ last_port = Some(p)
       /\ set_port_calls = 1
       /\ svc_prefs = preferences(p)
       /\ observer = "running"
       /\ pc["watcher"] = "idle"
       /\ file_port = None

(***************************************************************************)
(* C17. logged_in goes from true to false only in the reset the health     *)
(* check makes after a probe that returned None (line 262): a failing      *)
(* get_preferences, set_port or login() never clears it.                   *)
(***************************************************************************)
\* This step is the reset of line 262, followed by the call of login().
ExplicitReset ==
    /\ pc["main"] = "main_262"
    /\ pc'["main"] = "login"
    /\ stack'["main"] = <<"ret_main_263">>

\* This step is a request of thread t being answered, or its answer being
\* looked at.
RequestEnds(t) ==
    /\ pc[t] \in {"login_response", "get_preferences_request", "set_port_request"}
    /\ Moves(t)

C17_Step ==
    /\ logged_in /\ ~logged_in' => ExplicitReset
    /\ \A t \in Threads : RequestEnds(t) /\ logged_in => logged_in'

C17_OnlyExplicitReset == [][C17_Step]_vars

\* A login answered with a refusal is about to return in one thread after the
\* other thread's login has set the flag.
C17_Witness ==
    \E t \in Threads :
       /\ logged_in
       /\ pc[t] = "login_response"
       /\ ~LoginAccepted(resp[t][1])

(***************************************************************************)
(* C18. No port change is missed: while the process keeps running, every   *)
(* write of the port file made after the startup read is followed by a     *)
(* reconciliation that reads the file at or after that write, the writes   *)
(* made between the startup check and the start of the observer included.  *)
(***************************************************************************)
\* The startup check has read the port file (line 219).
StartupReadDone ==
    \/ file_port # None
    \/ pc["main"] = "main_248"
    \/ observer # "new"

\* The port file has been written after the startup read and not read since.
ChangeUnread == StartupReadDone /\ unread

C18_NoMissedChange == []Alive => (ChangeUnread ~> ~unread)

(***************************************************************************)
(* C19. last_port matches the service: this program being the only writer  *)
(* of the service's listening port, whenever no reconciliation is in       *)
(* progress and last_port = p, the service listens on p, also when a       *)
(* set_port request times out at the client after the service applied it.  *)
(***************************************************************************)
\* No reconciliation is in progress: the startup check is over or has not
\* begun, and no thread is inside update_port.
Quiescent ==
    /\ \A t \in Threads : ~InUpdatePort(t)
    /\ pc["main"] \notin {"main_213", "main_218"}
    /\ \A i \in 1..Len(stack["main"]) : stack["main"][i] # "ret_main_225"

C19_LastPortMatchesService ==
    \A p \in Ports :
       Quiescent /\ last_port = Some(p) => svc_prefs.listen_port = p

(***************************************************************************)
(* C20. Reconciliation steps never overlap: at most one thread is inside   *)
(* update_port, or in the startup check that ends by writing last_port, at *)
(* any time.  The startup check is over before the observer starts, the    *)
(* observer thread handles one event at a time, and the health check never *)
(* calls update_port or set_port and never touches last_port.              *)
(***************************************************************************)
\* Main is inside the startup check of lines 213-242.
InStartupCheck ==
    \/ pc["main"] \in {"main_213", "main_218"}
    \/ \E i \in 1..Len(stack["main"]) :
          stack["main"][i] \in {"ret_main_225", "ret_main_234"}

\* Thread t is reconciling.
Reconciling(t) == InUpdatePort(t) \/ (t = "main" /\ InStartupCheck)

\* The number of update_port calls in progress in thread t.
UpdatePortDepth(t) ==
    Cardinality({i \in 1..Len(stack[t]) :
                    stack[t][i] \in {"ret_dispatch", "ret_main_234"}})

C20_State ==
    /\ ~(Reconciling("main") /\ Reconciling("watcher"))
    /\ \A t \in Threads : UpdatePortDepth(t) <= 1
    /\ observer = "new" => pc["watcher"] = "idle" /\ queue = <<>>
    /\ observer # "new" =>
          /\ ~Reconciling("main")
          /\ pc["main"] \notin {"set_port", "set_port_request"}
          /\ port["main"] = None

C20_Step ==
    /\ C20_State'
    /\ observer # "new" /\ last_port' # last_port =>
          InUpdatePort("watcher") /\ pc'["watcher"] # pc["watcher"]

C20_NoOverlap == [][C20_Step]_vars

\* The watcher thread is reconciling while main's health probe is in flight.
C20_Witness ==
    /\ pc["watcher"] = "update_port_read"
    /\ pc["main"] = "get_preferences_request"
    /\ observer = "running"

=============================================================================
